---- MODULE Spec2Model ----
(***************************************************************************)
(* Model of grotto's batch dispatcher: the wrapper produced by            *)
(* _dispatch_method (src/src/grotto/client.py, lines 52-97) called on     *)
(* GrottoClient facades (lines 100-110).                                  *)
(*                                                                         *)
(* Two facade objects are constructed, each with its own n_jobs and       *)
(* verbose; each makes one dispatched call with the same wrapped method,  *)
(* the same array and the same output_format.  A call runs the sequential *)
(* loop (n_jobs == 1) or hands the tasks to a joblib worker pool, then    *)
(* assembles the per-item data into a list, a dict or a dataframe.        *)
(***************************************************************************)
EXTENDS Integers, Sequences, FiniteSets

\* ------------------------------------------------------------------ bounds

\* Longest array passed to a dispatched call.
MaxLen == 3

\* ------------------------------------------------------- values and inputs

\* Python's None, the n_jobs of a client constructed without n_jobs.
None == 0

\* The facade objects of the model.
Clients == {1, 2}

\* Values given for the n_jobs keyword argument of GrottoClient(...).
NJobsArgs == {1, 2, 4}

\* The keyword arguments of GrottoClient(...) that the facade keeps for
\* itself: each of n_jobs and verbose is given or left out.
Kwargs ==
    {[n_jobs |-> n, verbose |-> v] : n \in NJobsArgs, v \in BOOLEAN}
        \cup {[n_jobs |-> n] : n \in NJobsArgs}
        \cup {[verbose |-> v] : v \in BOOLEAN}
        \cup {[k \in {} |-> 0]}

\* The objects that can appear in the array.
Items == {"a", "b"}

\* The errors the wrapped method can raise.
ErrTypes == {"E1", "E2"}

\* The three values of the decorator's output_format parameter.
Formats == {"list", "dict", "dataframe"}

\* All arrays of at most MaxLen items.
Arrays == UNION {[1..n -> Items] : n \in 0..MaxLen}

Range(s) == {s[i] : i \in 1..Len(s)}

NoValue == [none |-> TRUE]

\* No call made yet on a client.
NoOutcome == [status |-> "none", value |-> NoValue, exc |-> NoValue,
              ticks |-> 0, invoked |-> <<>>, reordered |-> FALSE]

VARIABLES
    n_jobs,          \* client -> self.n_jobs
    verbose,         \* client -> self.verbose
    output_format,   \* the decorator's output_format
    array,           \* the array argument of the call
    raises,          \* the wrapped method: item -> "ok" or the error it raises
    cur,             \* the client whose call is running, 0 when none is
    pc,              \* position of the running call
    data_by_object,  \* the per-item data collected so far
    jobs,            \* pool: task index -> queued / running / done / error
    completed,       \* pool: finished tasks with their results, in completion order
    callbacks,       \* pool: whether batch completion callbacks are invoked
    n_ticks,         \* updates received by the progress bar during the call
    invoked,         \* indices of the items the method was invoked on, in order
    outcome          \* client -> how its call ended

vars == <<n_jobs, verbose, output_format, array, raises, cur, pc,
          data_by_object, jobs, completed, callbacks, n_ticks, invoked, outcome>>

config == <<n_jobs, verbose, output_format, array, raises>>

\* ------------------------------------------------------ the wrapped method

\* The data the wrapped single-item method returns for an item: an iterable
\* of records, a deterministic function of the item.
Result(item) == IF item = "a" THEN <<1, 2>> ELSE <<3>>

\* The exception the wrapped method raises on an item.
MethodError(item) == [type |-> raises[item]]

Fails(item) == raises[item] # "ok"

\* ------------------------------------------------------------ construction

\* __init__: self.n_jobs = kwargs.pop("n_jobs") if given, else None.
InitNJobs(kwargs) ==
    IF "n_jobs" \in DOMAIN kwargs THEN kwargs.n_jobs ELSE None

\* __init__: self.verbose = kwargs.pop("verbose") if given, else False.
InitVerbose(kwargs) ==
    IF "verbose" \in DOMAIN kwargs THEN kwargs.verbose ELSE FALSE

\* tqdm(..., disable=self.verbose == 0): the bar is disabled when verbose is
\* False (False == 0 in Python), live otherwise.
ProgressEnabled(c) == ~(verbose[c] = FALSE)

\* Mutant of IsSequential: an unset n_jobs is taken for sequential too.
IsSequentialOrUnset(c) == n_jobs[c] = 1 \/ n_jobs[c] = None

\* if self.n_jobs == 1: the sequential loop, else the pool.
IsSequential(c) == n_jobs[c] = 1

\* joblib reads n_jobs=None as one worker.
Workers(c) == IF n_jobs[c] = None THEN 1 ELSE n_jobs[c]

Init ==
    /\ \E kw \in [Clients -> Kwargs] :
        /\ n_jobs = [c \in Clients |-> InitNJobs(kw[c])]
        /\ verbose = [c \in Clients |-> InitVerbose(kw[c])]
    /\ output_format \in Formats
    /\ array \in Arrays
    /\ raises \in [Items -> {"ok"} \cup ErrTypes]
    /\ cur = 0
    /\ pc = "idle"
    /\ data_by_object = <<>>
    /\ jobs = <<>>
    /\ completed = <<>>
    /\ callbacks = FALSE
    /\ n_ticks = 0
    /\ invoked = <<>>
    /\ outcome = [c \in Clients |-> NoOutcome]

\* ------------------------------------------------------- ending a call

\* Everything a call leaves behind is dropped when it ends.
CallEnds ==
    /\ cur' = 0
    /\ pc' = "idle"
    /\ data_by_object' = <<>>
    /\ jobs' = <<>>
    /\ completed' = <<>>
    /\ callbacks' = FALSE
    /\ n_ticks' = 0
    /\ invoked' = <<>>
    /\ UNCHANGED config

\* The call ends by raising e: neither branch of the wrapper catches or
\* wraps an exception, so e reaches the caller as it is.
Raise(e, inv) ==
    /\ outcome' = [outcome EXCEPT ![cur] =
            [status |-> "raised", value |-> NoValue, exc |-> e,
             ticks |-> n_ticks, invoked |-> inv, reordered |-> FALSE]]
    /\ CallEnds

\* Whether some task of the pool completed before a task earlier in the
\* array.
CompletedOutOfOrder ==
    \E k, l \in 1..Len(completed) :
        k < l /\ completed[k].task > completed[l].task

\* The call ends by returning v.
Return(v) ==
    /\ outcome' = [outcome EXCEPT ![cur] =
            [status |-> "returned", value |-> v, exc |-> NoValue,
             ticks |-> n_ticks, invoked |-> invoked,
             reordered |-> CompletedOutOfOrder]]
    /\ CallEnds

\* One update of the progress bar; a disabled bar ignores it.
Tick(c) == IF ProgressEnabled(c) THEN 1 ELSE 0

\* The caller makes the calls one after the other, client 1 first (the
\* clients draw their settings from the same sets, so the other order adds
\* nothing).
MayCall(c) ==
    /\ cur = 0
    /\ outcome[c].status = "none"
    /\ \A d \in Clients : d < c => outcome[d].status # "none"

\* ------------------------------------------------------ sequential branch

\* wrapper enters the n_jobs == 1 branch: data_by_object = [].
CallSequential(c) ==
    /\ MayCall(c)
    /\ IsSequential(c)
    /\ cur' = c
    /\ pc' = "seq"
    /\ data_by_object' = <<>>
    /\ n_ticks' = 0
    /\ invoked' = <<>>
    /\ UNCHANGED <<config, jobs, completed, callbacks, outcome>>

\* Mutant of SeqInvokeOk: the data is inserted at the front of the list.
SeqInvokeOkPrepend ==
    /\ pc = "seq"
    /\ Len(data_by_object) < Len(array)
    /\ LET i == Len(data_by_object) + 1 IN
        /\ ~Fails(array[i])
        /\ invoked' = Append(invoked, i)
        /\ data_by_object' = <<Result(array[i])>> \o data_by_object
        /\ n_ticks' = n_ticks + Tick(cur)
    /\ UNCHANGED <<config, cur, pc, jobs, completed, callbacks, outcome>>

\* One iteration of the loop whose method call returns: the data is appended
\* and the bar advances by one.
SeqInvokeOk ==
    /\ pc = "seq"
    /\ Len(data_by_object) < Len(array)
    /\ LET i == Len(data_by_object) + 1 IN
        /\ ~Fails(array[i])
        /\ invoked' = Append(invoked, i)
        /\ data_by_object' = Append(data_by_object, Result(array[i]))
        /\ n_ticks' = n_ticks + Tick(cur)
    /\ UNCHANGED <<config, cur, pc, jobs, completed, callbacks, outcome>>

\* Mutant of SeqInvokeRaise: the exception is swallowed and the loop goes
\* on with an empty result for the item.
SeqInvokeSwallow ==
    /\ pc = "seq"
    /\ Len(data_by_object) < Len(array)
    /\ LET i == Len(data_by_object) + 1 IN
        /\ Fails(array[i])
        /\ invoked' = Append(invoked, i)
        /\ data_by_object' = Append(data_by_object, <<>>)
        /\ n_ticks' = n_ticks + Tick(cur)
    /\ UNCHANGED <<config, cur, pc, jobs, completed, callbacks, outcome>>

\* One iteration of the loop whose method call raises: the exception leaves
\* the loop and the wrapper.
SeqInvokeRaise ==
    /\ pc = "seq"
    /\ Len(data_by_object) < Len(array)
    /\ LET i == Len(data_by_object) + 1 IN
        /\ Fails(array[i])
        /\ Raise(MethodError(array[i]), Append(invoked, i))

\* The loop is exhausted.
SeqDone ==
    /\ pc = "seq"
    /\ Len(data_by_object) = Len(array)
    /\ pc' = "assemble"
    /\ UNCHANGED <<config, cur, data_by_object, jobs, completed, callbacks,
                   n_ticks, invoked, outcome>>

\* ------------------------------------------------------------ pool branch

\* Whether joblib invokes the batch completion callback that tqdm_joblib
\* patches: always with more than one worker; with one worker (n_jobs=None)
\* it depends on the installed joblib, which either runs the tasks through a
\* backend with callbacks or through a plain loop without them.
CallbackChoices(c) == IF Workers(c) = 1 THEN BOOLEAN ELSE {TRUE}

\* wrapper enters the else branch: one delayed task per item, in array
\* order, handed to joblib.Parallel(n_jobs=self.n_jobs).
CallPool(c) ==
    /\ MayCall(c)
    /\ ~IsSequential(c)
    /\ cur' = c
    /\ pc' = "pool"
    /\ jobs' = [i \in 1..Len(array) |-> "queued"]
    /\ completed' = <<>>
    /\ callbacks' \in CallbackChoices(c)
    /\ data_by_object' = <<>>
    /\ n_ticks' = 0
    /\ invoked' = <<>>
    /\ UNCHANGED <<config, outcome>>

Running == {i \in 1..Len(jobs) : jobs[i] = "running"}
Queued == {i \in 1..Len(jobs) : jobs[i] = "queued"}
Errored == {i \in 1..Len(jobs) : jobs[i] = "error"}

SetMin(S) == CHOOSE x \in S : \A y \in S : x <= y

\* The pool starts the next task, in array order, on a free worker; no task
\* is started once a task has failed.
PoolDispatch ==
    /\ pc = "pool"
    /\ Errored = {}
    /\ Queued # {}
    /\ Cardinality(Running) < Workers(cur)
    /\ LET i == SetMin(Queued) IN
        /\ jobs' = [jobs EXCEPT ![i] = "running"]
        /\ invoked' = Append(invoked, i)
    /\ UNCHANGED <<config, cur, pc, data_by_object, completed, callbacks,
                   n_ticks, outcome>>

\* The completion callback's update of the bar.
CallbackTick == IF callbacks THEN Tick(cur) ELSE 0

\* A running task finishes, in any order among the running ones; its result
\* is kept with the task it belongs to.
PoolComplete(i) ==
    /\ pc = "pool"
    /\ i \in Running
    /\ ~Fails(array[i])
    /\ jobs' = [jobs EXCEPT ![i] = "done"]
    /\ completed' = Append(completed, [task |-> i, data |-> Result(array[i])])
    /\ n_ticks' = n_ticks + CallbackTick
    /\ UNCHANGED <<config, cur, pc, data_by_object, invoked, outcome>>
    /\ UNCHANGED callbacks

\* A running task raises.
PoolFail(i) ==
    /\ pc = "pool"
    /\ i \in Running
    /\ Fails(array[i])
    /\ jobs' = [jobs EXCEPT ![i] = "error"]
    /\ n_ticks' = n_ticks + CallbackTick
    /\ UNCHANGED <<config, cur, pc, data_by_object, completed, callbacks,
                   invoked, outcome>>

\* The pool aborts: the error of the first failed task, in array order, is
\* re-raised in the caller; tasks still running are abandoned.
PoolRaise ==
    /\ pc = "pool"
    /\ Errored # {}
    /\ Raise(MethodError(array[SetMin(Errored)]), invoked)

\* Mutant of PoolOutput: the results in completion order.
PoolOutputAsCompleted ==
    [k \in 1..Len(completed) |-> completed[k].data]

\* The list joblib.Parallel returns: the results in task order.
PoolOutput ==
    [i \in 1..Len(jobs) |->
        (CHOOSE r \in Range(completed) : r.task = i).data]

\* Mutant of PoolReturn: the pool returns the results it has once no task is
\* running, failed tasks or not.
PoolReturnPartial ==
    /\ pc = "pool"
    /\ Running = {}
    /\ Queued = {} \/ Errored # {}
    /\ data_by_object' = PoolOutputAsCompleted
    /\ pc' = "assemble"
    /\ UNCHANGED <<config, cur, jobs, completed, callbacks, n_ticks, invoked,
                   outcome>>

\* Mutant of PoolReturn: an empty task list is an error.
PoolReturnNoEmpty ==
    /\ pc = "pool"
    /\ \A i \in 1..Len(jobs) : jobs[i] = "done"
    /\ IF Len(jobs) = 0
       THEN Raise([type |-> "ValueError"], invoked)
       ELSE /\ data_by_object' = PoolOutput
            /\ pc' = "assemble"
            /\ UNCHANGED <<config, cur, jobs, completed, callbacks, n_ticks,
                           invoked, outcome>>

\* Every task is done: data_by_object = joblib.Parallel(...)(tasks).
PoolReturn ==
    /\ pc = "pool"
    /\ \A i \in 1..Len(jobs) : jobs[i] = "done"
    /\ data_by_object' = PoolOutput
    /\ pc' = "assemble"
    /\ UNCHANGED <<config, cur, jobs, completed, callbacks, n_ticks, invoked,
                   outcome>>

\* ---------------------------------------------------------------- assembly

Min(a, b) == IF a < b THEN a ELSE b

\* zip(array, data_by_object)
Zip(arr, data) ==
    [i \in 1..Min(Len(arr), Len(data)) |-> [item |-> arr[i], data |-> data[i]]]

\* {item: data for item, data in zip(...)}: a later pair with the same item
\* replaces the earlier one.
RECURSIVE DictOf(_)
DictOf(pairs) ==
    IF pairs = <<>> THEN <<>>
    ELSE LET n == Len(pairs)
             d == DictOf(SubSeq(pairs, 1, n - 1))
             k == pairs[n].item
         IN [x \in (DOMAIN d) \cup {k} |-> IF x = k THEN pairs[n].data ELSE d[x]]

\* The rows appended for one pair: one {"object": item, "data": x} per x.
RowsOf(pair) ==
    [j \in 1..Len(pair.data) |-> [object |-> pair.item, data |-> pair.data[j]]]

\* Mutant of NewData: each item's rows are put in front of the rows so far.
RECURSIVE NewDataFront(_)
NewDataFront(pairs) ==
    IF pairs = <<>> THEN <<>>
    ELSE RowsOf(pairs[Len(pairs)])
            \o NewDataFront(SubSeq(pairs, 1, Len(pairs) - 1))

\* new_data after the double loop over zip(...) and over each data.
RECURSIVE NewData(_)
NewData(pairs) ==
    IF pairs = <<>> THEN <<>>
    ELSE NewData(SubSeq(pairs, 1, Len(pairs) - 1)) \o RowsOf(pairs[Len(pairs)])

\* output_format == "list": return data_by_object
AssembleList ==
    /\ pc = "assemble"
    /\ output_format = "list"
    /\ Return(data_by_object)

\* output_format == "dict"
AssembleDict ==
    /\ pc = "assemble"
    /\ output_format = "dict"
    /\ Return(DictOf(Zip(array, data_by_object)))

\* output_format == "dataframe": the rows of pd.DataFrame(new_data)
AssembleDataFrame ==
    /\ pc = "assemble"
    /\ output_format = "dataframe"
    /\ Return(NewData(Zip(array, data_by_object)))

\* ----------------------------------------------------------- specification

Next ==
    \/ \E c \in Clients : CallSequential(c)
    \/ \E c \in Clients : CallPool(c)
    \/ SeqInvokeOk
    \/ SeqInvokeRaise
    \/ SeqDone
    \/ PoolDispatch
    \/ \E i \in 1..MaxLen : PoolComplete(i)
    \/ \E i \in 1..MaxLen : PoolFail(i)
    \/ PoolRaise
    \/ PoolReturn
    \/ AssembleList
    \/ AssembleDict
    \/ AssembleDataFrame

Spec == Init /\ [][Next]_vars

\* ------------------------------------------------------------------ claims

Done(c) == outcome[c].status # "none"
Returned(c) == outcome[c].status = "returned"
Raised(c) == outcome[c].status = "raised"

\* Positions of the array on which the wrapped method raises.
FailingIdx == {i \in 1..Len(array) : Fails(array[i])}

HasDuplicates(arr) ==
    \E i, j \in 1..Len(arr) : i # j /\ arr[i] = arr[j]

\* Number of records the method returns for the items before position i.
RECURSIVE Offset(_)
Offset(i) == IF i <= 1 THEN 0 ELSE Offset(i - 1) + Len(Result(array[i - 1]))

\* C1: for a non-empty array and any n_jobs, the list a dispatched call
\* returns has the length of the array and its i-th element is the method's
\* result for array[i], whatever the order in which the pool's tasks
\* completed.
C1_ListInInputOrder ==
    \A c \in Clients :
        (Returned(c) /\ output_format = "list" /\ Len(array) > 0) =>
            /\ Len(outcome[c].value) = Len(array)
            /\ \A i \in 1..Len(array) : outcome[c].value[i] = Result(array[i])

\* A pool call with 4 workers whose tasks completed out of array order has
\* returned its list, after a sequential call on the same array.
C1_Witness ==
    /\ output_format = "list"
    /\ Len(array) = 3
    /\ array[1] # array[3]
    /\ n_jobs[1] = 1 /\ Returned(1)
    /\ n_jobs[2] = 4 /\ Returned(2) /\ outcome[2].reordered

\* C2: for the same method, array and output_format, a call with n_jobs = 4
\* returns the same value as a call with n_jobs = 1, for each output format.
C2_ModesAgree ==
    \A c, d \in Clients :
        (n_jobs[c] = 1 /\ n_jobs[d] = 4 /\ Returned(c) /\ Returned(d)) =>
            outcome[c].value = outcome[d].value

\* Both modes have returned a dataframe for a three-item array with different
\* items, the pool's tasks having completed out of array order.
C2_Witness ==
    /\ output_format = "dataframe"
    /\ Len(array) = 3
    /\ array[1] # array[2]
    /\ n_jobs[1] = 1 /\ Returned(1)
    /\ n_jobs[2] = 4 /\ Returned(2) /\ outcome[2].reordered
    /\ Len(outcome[2].value) >= 4

\* C3: a dict-format call on an array with a duplicate item fails with
\* DuplicateKeyError instead of returning a mapping.
C3_DuplicateKeyError ==
    \A c \in Clients :
        (Done(c) /\ output_format = "dict" /\ HasDuplicates(array)
                 /\ FailingIdx = {}) =>
            (Raised(c) /\ outcome[c].exc.type = "DuplicateKeyError")

\* C4: for any array and any n_jobs, the dataframe's rows are the records of
\* array[1] in their order, then those of array[2], and so on, each tagged
\* with its item; for [a, b] with results [[1,2],[3]] they are
\* (a,1), (a,2), (b,3).
C4_TableBlockOrder ==
    \A c \in Clients :
        (Returned(c) /\ output_format = "dataframe") =>
            /\ Len(outcome[c].value) = Offset(Len(array) + 1)
            /\ \A i \in 1..Len(array) :
                \A j \in 1..Len(Result(array[i])) :
                    outcome[c].value[Offset(i) + j] =
                        [object |-> array[i], data |-> Result(array[i])[j]]
            /\ array = <<"a", "b">> =>
                outcome[c].value = << [object |-> "a", data |-> 1],
                                      [object |-> "a", data |-> 2],
                                      [object |-> "b", data |-> 3] >>

\* The dataframe for [a, b] has been returned in both modes.
C4_Witness ==
    /\ output_format = "dataframe"
    /\ array = <<"a", "b">>
    /\ n_jobs[1] = 1 /\ Returned(1)
    /\ n_jobs[2] = 4 /\ Returned(2) /\ outcome[2].reordered

\* C5: with n_jobs = 1, if the method fails on the k-th item (the first on
\* which it fails), the call raises having invoked the method on exactly
\* items 1..k in order; while the loop runs, every item invoked so far
\* succeeded, so the failure ends the call in the step that meets it.
C5_SequentialFailFast ==
    /\ \A c \in Clients :
        (n_jobs[c] = 1 /\ Done(c) /\ FailingIdx # {}) =>
            /\ Raised(c)
            /\ outcome[c].invoked = [i \in 1..SetMin(FailingIdx) |-> i]
    /\ (cur # 0 /\ n_jobs[cur] = 1) =>
            \A k \in 1..Len(invoked) : invoked[k] = k /\ ~Fails(array[k])

\* A sequential call has raised on the second of three items.
C5_Witness ==
    \E c \in Clients :
        /\ n_jobs[c] = 1
        /\ Raised(c)
        /\ Len(array) = 3
        /\ FailingIdx = {2}
        /\ outcome[c].invoked = <<1, 2>>

\* C6: in both modes a call returns only when the method succeeded on every
\* item, and then returns the full aggregate; when an invocation failed the
\* call ends in an error and returns no value.
C6_AllOrNothing ==
    \A c \in Clients :
        Done(c) =>
            /\ (\E k \in Range(outcome[c].invoked) : Fails(array[k])) =>
                    (Raised(c) /\ outcome[c].value = NoValue)
            /\ Returned(c) =>
                /\ FailingIdx = {}
                /\ Range(outcome[c].invoked) = 1..Len(array)
                /\ output_format = "list" =>
                        Len(outcome[c].value) = Len(array)
                /\ output_format = "dict" =>
                        DOMAIN outcome[c].value = Range(array)
                /\ output_format = "dataframe" =>
                        Len(outcome[c].value) = Offset(Len(array) + 1)

\* A pool call has raised after two of its three tasks had completed with a
\* result, and a sequential call has raised after a successful first item.
C6_Witness ==
    /\ Len(array) = 3
    /\ Cardinality(FailingIdx) = 1
    /\ n_jobs[1] = 1 /\ Raised(1) /\ Len(outcome[1].invoked) >= 2
    /\ n_jobs[2] = 4 /\ Raised(2) /\ verbose[2] /\ outcome[2].ticks = 3

\* C7: the error of a failed call is a TaskFailure carrying the
\* item whose invocation failed and the underlying error.
C7_TaskFailureWithItem ==
    \A c \in Clients :
        Raised(c) =>
            /\ outcome[c].exc.type = "TaskFailure"
            /\ DOMAIN outcome[c].exc = {"type", "item", "cause"}
            /\ \E k \in Range(outcome[c].invoked) :
                /\ Fails(array[k])
                /\ outcome[c].exc.item = array[k]
                /\ outcome[c].exc.cause = MethodError(array[k])

\* C8: in both execution modes (the sequential loop and the pool, whatever
\* n_jobs selects it) a call that returns has sent the progress bar exactly
\* len(array) updates when verbose is on, none when it is off.
C8_TicksPerItem ==
    \A c \in Clients :
        Returned(c) =>
            outcome[c].ticks = IF verbose[c] THEN Len(array) ELSE 0

\* C9: a call on an empty array never raises and never invokes the method;
\* it returns the empty list, dict or dataframe, for every n_jobs.
C9_EmptyArray ==
    array = <<>> =>
        /\ invoked = <<>>
        /\ \A c \in Clients :
            Done(c) =>
                /\ Returned(c)
                /\ outcome[c].invoked = <<>>
                /\ outcome[c].value = <<>>

\* Both modes have returned for the empty array.
C9_Witness ==
    /\ array = <<>>
    /\ n_jobs[1] = 1 /\ Returned(1)
    /\ n_jobs[2] # 1 /\ Returned(2)

\* C10: a running call is in the sequential loop exactly when its client's
\* n_jobs is 1, and in the pool, with one task per item built before any
\* runs, otherwise; a client constructed without n_jobs has n_jobs None and
\* so uses the pool.
C10_BranchByNJobs ==
    /\ \A kw \in Kwargs :
        ("n_jobs" \notin DOMAIN kw) => InitNJobs(kw) = None
    /\ cur # 0 =>
        /\ pc = "seq" => n_jobs[cur] = 1
        /\ pc = "pool" => (n_jobs[cur] # 1 /\ Len(jobs) = Len(array))
        /\ n_jobs[cur] = None => pc \in {"pool", "assemble"}

\* A client with n_jobs None has its three tasks in the pool, none started.
C10_Witness ==
    /\ cur # 0
    /\ n_jobs[cur] = None
    /\ pc = "pool"
    /\ Len(jobs) = 3
    /\ Queued = {1, 2, 3}

====
